---- MODULE Spec2Model ----
(***************************************************************************)
(* Model of streamlit_app.py: the stock factor-scoring engine              *)
(* (zclip, renorm_weights, score_stock, reco), the instrument detection    *)
(* (detect_country_and_type) and one run of the Streamlit script.          *)
(*                                                                         *)
(* Python floats are modelled as exact rationals [n, d] in lowest terms,   *)
(* together with the two non-numbers the code distinguishes: None and NaN. *)
(***************************************************************************)
EXTENDS Integers, Sequences, FiniteSets, TLC

(***************************************************************************)
(* Values: None, NaN, or a rational n/d with d > 0 and gcd(n, d) = 1.      *)
(***************************************************************************)
RECURSIVE GCD(_, _)
GCD(a, b) ==
  IF b = 0 THEN a ELSE GCD(b, a % b)

IAbs(i) ==
  IF i < 0 THEN -i ELSE i

None ==
  [k |-> "none", n |-> 0, d |-> 1]

NaN ==
  [k |-> "nan", n |-> 0, d |-> 1]

R(n, d) ==
  LET s == IF d < 0 THEN -1 ELSE 1
      g == GCD(IAbs(n), IAbs(d))
  IN  [k |-> "num", n |-> (s * n) \div g, d |-> (s * d) \div g]

IsNone(x) ==
  x.k = "none"

IsNaN(x) ==
  x.k = "nan"

IsNum(x) ==
  x.k = "num"

\* Python truthiness of a metric: None and 0 are falsy, NaN is truthy.
Truthy(x) ==
  ~IsNone(x) /\ ~(IsNum(x) /\ x.n = 0)

\* x or dflt
OrElse(x, dflt) ==
  IF Truthy(x) THEN x ELSE dflt

\* Float arithmetic: NaN propagates; operands are never None where the code
\* reaches the operation.
FAdd(x, y) ==
  IF IsNaN(x) \/ IsNaN(y) THEN NaN ELSE R(x.n * y.d + y.n * x.d, x.d * y.d)

FSub(x, y) ==
  IF IsNaN(x) \/ IsNaN(y) THEN NaN ELSE R(x.n * y.d - y.n * x.d, x.d * y.d)

FMul(x, y) ==
  IF IsNaN(x) \/ IsNaN(y) THEN NaN ELSE R(x.n * y.n, x.d * y.d)

FDiv(x, y) ==
  IF IsNaN(x) \/ IsNaN(y) THEN NaN ELSE R(x.n * y.d, x.d * y.n)

FAbs(x) ==
  IF IsNaN(x) THEN NaN ELSE R(IAbs(x.n), x.d)

\* Comparisons are FALSE as soon as an operand is NaN.
FLt(x, y) ==
  IsNum(x) /\ IsNum(y) /\ x.n * y.d < y.n * x.d

FLe(x, y) ==
  IsNum(x) /\ IsNum(y) /\ x.n * y.d <= y.n * x.d

FGe(x, y) ==
  FLe(y, x)

FGt(x, y) ==
  FLt(y, x)

\* Python's min(a, b): b when b < a, else a.  max(a, b): b when b > a, else a.
PyMin(a, b) ==
  IF FLt(b, a) THEN b ELSE a

PyMax(a, b) ==
  IF FGt(b, a) THEN b ELSE a

\* round(x, 2): nearest hundredth, ties to even.
Round2(x) ==
  IF ~IsNum(x) THEN x
  ELSE LET q == (100 * x.n) \div x.d
           r == (100 * x.n) - q * x.d
           up == \/ 2 * r > x.d
                 \/ (2 * r = x.d /\ q % 2 = 1)
       IN  R(IF up THEN q + 1 ELSE q, 100)

Zero ==
  R(0, 1)

One ==
  R(1, 1)

Five ==
  R(5, 1)

Ten ==
  R(10, 1)

(***************************************************************************)
(* Helpers                                                                 *)
(***************************************************************************)
zclip_noclamp(x) ==
  IF IsNone(x) \/ IsNaN(x) THEN NaN ELSE x

zclip(x) ==
  IF IsNone(x) \/ IsNaN(x) THEN NaN ELSE PyMax(Zero, PyMin(Ten, x))

RECURSIVE SumOver(_, _)
SumOver(d, S) ==
  IF S = {} THEN Zero
  ELSE LET e == CHOOSE e \in S : TRUE
       IN  FAdd(d[e], SumOver(d, S \ {e}))

renorm_weights_nodiv(d) ==
  LET s == SumOver(d, DOMAIN d)
  IN  [e \in DOMAIN d |-> IF FGt(s, Zero) THEN d[e] ELSE Zero]

renorm_weights(d) ==
  LET s == SumOver(d, DOMAIN d)
  IN  [e \in DOMAIN d |-> IF FGt(s, Zero) THEN FDiv(d[e], s) ELSE Zero]

\* np.nanmean over a non-empty list: mean of the non-NaN entries, NaN when
\* every entry is NaN.
RECURSIVE SeqSum(_)
SeqSum(q) ==
  IF q = <<>> THEN Zero ELSE FAdd(Head(q), SeqSum(Tail(q)))

nanmean(q) ==
  LET notnan(x) == ~IsNaN(x)
      kept == SelectSeq(q, notnan)
  IN  IF kept = <<>> THEN NaN ELSE FDiv(SeqSum(kept), R(Len(kept), 1))

(***************************************************************************)
(* Factor models & weights                                                 *)
(***************************************************************************)
Factors ==
  {"pe_vs_sector", "financial_health", "valuation", "growth",
   "management", "moat", "risk", "dividend"}

NominalStockW ==
  [f \in Factors |-> R(125, 1000)]

STOCK_W ==
  renorm_weights(NominalStockW)

SECTOR_MEDIANS ==
  [c \in {"US", "India"} |->
     IF c = "US"
     THEN [s \in {"Technology", "Default"} |->
             IF s = "Technology"
             THEN [PE |-> R(28, 1), EVEBITDA |-> R(19, 1), PS |-> R(6, 1), PFCF |-> R(25, 1)]
             ELSE [PE |-> R(18, 1), EVEBITDA |-> R(12, 1), PS |-> R(2, 1), PFCF |-> R(18, 1)]]
     ELSE [s \in {"Technology", "Default"} |->
             IF s = "Technology"
             THEN [PE |-> R(30, 1), EVEBITDA |-> R(20, 1), PS |-> R(7, 1), PFCF |-> R(28, 1)]
             ELSE [PE |-> R(22, 1), EVEBITDA |-> R(14, 1), PS |-> R(3, 1), PFCF |-> R(22, 1)]]]

\* m.get("sector") is None when the sector is unknown.
NoSector ==
  "None"

\* 5 + 5*((median/actual) - 1), the unclamped valuation-vs-sector score.
SubRatio_inverted(median, actual) ==
  FAdd(Five, FMul(Five, FSub(FDiv(actual, median), One)))

SubRatio(median, actual) ==
  FAdd(Five, FMul(Five, FSub(FDiv(median, actual), One)))

pe_vs_sector_score(pe, med) ==
  IF Truthy(pe) /\ Truthy(med.PE) THEN zclip(SubRatio(med.PE, pe)) ELSE NaN

financial_health_score(pb) ==
  IF Truthy(pb)
  THEN zclip(FSub(Ten, FMul(FAbs(FSub(OrElse(pb, R(3, 1)), R(3, 1))), R(2, 1))))
  ELSE NaN

valuation_comp(pe, ps, pfcf, med) ==
  (IF Truthy(pe) /\ Truthy(med.PE) THEN <<SubRatio(med.PE, pe)>> ELSE <<>>)
  \o (IF Truthy(ps) /\ Truthy(med.PS) THEN <<SubRatio(med.PS, ps)>> ELSE <<>>)
  \o (IF Truthy(pfcf) /\ Truthy(med.PFCF) THEN <<SubRatio(med.PFCF, pfcf)>> ELSE <<>>)

valuation_score(pe, ps, pfcf, med) ==
  LET comp == valuation_comp(pe, ps, pfcf, med)
  IN  zclip(IF comp # <<>> THEN nanmean(comp) ELSE NaN)

growth_score(r1, r3) ==
  zclip(FAdd(Five, nanmean(<<FMul(OrElse(r1, Zero), Ten),
                             FMul(OrElse(r3, Zero), Five)>>)))

risk_score(beta_raw) ==
  LET beta == OrElse(beta_raw, One)
  IN  zclip(FSub(Ten, FMul(FAbs(FSub(beta, One)), Five)))

dividend_score_falsy(y) ==
  zclip(IF Truthy(y) /\ ~IsNaN(y) THEN FDiv(FMul(y, R(100, 1)), R(6, 10)) ELSE NaN)

dividend_score(y) ==
  zclip(IF ~IsNone(y) /\ ~IsNaN(y) THEN FDiv(FMul(y, R(100, 1)), R(6, 10)) ELSE NaN)

\* f"{x:.1%}" raises TypeError when x is None; NaN and numbers format.
FormatRaises(x) ==
  IsNone(x)

overall_sum_unweighted(w, scores) ==
  LET wd == [f \in {g \in Factors : ~IsNaN(scores[g])} |-> scores[f]]
  IN  SumOver(wd, DOMAIN wd)

overall_sum(w, scores) ==
  LET wd == [f \in {g \in Factors : ~IsNaN(scores[g])} |-> FMul(w[f], scores[f])]
  IN  SumOver(wd, DOMAIN wd)

\* score_stock(country, tkr, m).  status is "returned" with the result tuple,
\* or "raised" when the growth rationale cannot be formatted; in that case
\* scores holds the sub-scores assigned before the fault.
score_stock(country, m) ==
  LET sector == IF m.sector = NoSector THEN "Default" ELSE m.sector
      med == IF sector \in DOMAIN SECTOR_MEDIANS[country]
             THEN SECTOR_MEDIANS[country][sector]
             ELSE SECTOR_MEDIANS[country]["Default"]
      upto_growth ==
        [f \in {"pe_vs_sector", "financial_health", "valuation", "growth"} |->
           CASE f = "pe_vs_sector" -> pe_vs_sector_score(m.pe, med)
             [] f = "financial_health" -> financial_health_score(m.pb)
             [] f = "valuation" -> valuation_score(m.pe, m.ps, m.pfcf, med)
             [] f = "growth" -> growth_score(m.r_1y, m.r_3y)]
      scores ==
        [f \in Factors |->
           CASE f \in DOMAIN upto_growth -> upto_growth[f]
             [] f = "management" -> R(6, 1)
             [] f = "moat" -> R(6, 1)
             [] f = "risk" -> risk_score(m.beta)
             [] f = "dividend" -> dividend_score(m.div_yield)]
      exps ==
        [f \in Factors |->
           CASE f = "pe_vs_sector" -> "P/E vs sector"
             [] f = "financial_health" -> "P/B (target ~3)"
             [] f = "valuation" -> "PE/PS/PFCF vs sector medians"
             [] f = "growth" -> "1Y / 3Y"
             [] f = "management" -> "Proxy (v1=6)"
             [] f = "moat" -> "Proxy (v1=6)"
             [] f = "risk" -> "Beta"
             [] f = "dividend" -> IF Truthy(m.div_yield) THEN "Yield" ELSE "No dividend"]
      w == renorm_weights([f \in Factors |->
                             IF ~IsNaN(scores[f]) THEN STOCK_W[f] ELSE Zero])
      overall == overall_sum(w, scores)
  IN  IF FormatRaises(m.r_1y) \/ FormatRaises(m.r_3y)
      THEN [status |-> "raised", overall |-> None, scores |-> upto_growth,
            exps |-> [f \in {"pe_vs_sector", "financial_health", "valuation"} |-> exps[f]],
            sector |-> sector, w |-> <<>>]
      ELSE [status |-> "returned", overall |-> Round2(overall), scores |-> scores,
            exps |-> exps, sector |-> sector, w |-> w]


(***************************************************************************)
(* Detection.  Codes are sequences of one-character strings.               *)
(***************************************************************************)
Lower ==
  <<"a","b","c","d","e","f","g","h","i","j","k","l","m",
    "n","o","p","q","r","s","t","u","v","w","x","y","z">>

UpperOf ==
  <<"A","B","C","D","E","F","G","H","I","J","K","L","M",
    "N","O","P","Q","R","S","T","U","V","W","X","Y","Z">>

UpperChar(c) ==
  IF \E i \in 1..Len(Lower) : Lower[i] = c
  THEN UpperOf[CHOOSE i \in 1..Len(Lower) : Lower[i] = c]
  ELSE c

upper(s) ==
  [i \in 1..Len(s) |-> UpperChar(s[i])]

IsSpace(c) ==
  c = " "

RECURSIVE lstrip(_)
lstrip(s) ==
  IF s # <<>> /\ IsSpace(Head(s)) THEN lstrip(Tail(s)) ELSE s

RECURSIVE rstrip(_)
rstrip(s) ==
  IF s # <<>> /\ IsSpace(s[Len(s)]) THEN rstrip(SubSeq(s, 1, Len(s) - 1)) ELSE s

strip(s) ==
  rstrip(lstrip(s))

startswith(s, p) ==
  Len(s) >= Len(p) /\ SubSeq(s, 1, Len(p)) = p

endswith(s, p) ==
  Len(s) >= Len(p) /\ SubSeq(s, Len(s) - Len(p) + 1, Len(s)) = p

\* s.replace(old, ""): every non-overlapping occurrence, left to right.
RECURSIVE remove_all(_, _)
remove_all(s, old) ==
  IF s = <<>> THEN <<>>
  ELSE IF startswith(s, old) THEN remove_all(SubSeq(s, Len(old) + 1, Len(s)), old)
  ELSE <<Head(s)>> \o remove_all(Tail(s), old)

INF ==
  <<"I","N","F">>

NSE ==
  <<"N","S","E",":">>

BSE ==
  <<"B","S","E",":">>

BEES ==
  <<"B","E","E","S">>

detect_bees_first(code_raw) ==
  LET s == upper(strip(code_raw))
  IN  IF startswith(s, INF) \/ (Len(s) = 5 /\ endswith(s, <<"X">>))
      THEN [country |-> IF startswith(s, INF) THEN "India" ELSE "US",
            itype |-> "Mutual Fund", code |-> s]
      ELSE IF endswith(s, BEES)
      THEN [country |-> "India", itype |-> "ETF", code |-> s]
      ELSE IF startswith(s, NSE) \/ startswith(s, BSE)
      THEN [country |-> "India", itype |-> "Stock", code |-> s]
      ELSE [country |-> "US", itype |-> "Stock", code |-> s]

detect_country_and_type(code_raw) ==
  LET s == upper(strip(code_raw))
  IN  IF startswith(s, INF) \/ (Len(s) = 5 /\ endswith(s, <<"X">>))
      THEN [country |-> IF startswith(s, INF) THEN "India" ELSE "US",
            itype |-> "Mutual Fund", code |-> s]
      ELSE IF startswith(s, NSE) \/ startswith(s, BSE)
      THEN [country |-> "India", itype |-> "Stock", code |-> s]
      ELSE IF endswith(s, BEES)
      THEN [country |-> "India", itype |-> "ETF", code |-> s]
      ELSE [country |-> "US", itype |-> "Stock", code |-> s]

\* The tickers fetch_for asks fetch_yahoo for, in order.
fetch_tickers(code, country) ==
  IF country = "India"
  THEN LET core == remove_all(remove_all(code, NSE), BSE)
       IN  <<core \o <<".","N","S">>, core \o <<".","B","O">>>>
  ELSE <<code>>

\* fetch_for(code, country, itype), given what fetch_yahoo returns for the
\* first and (India only) the second ticker.
fetch_for(code, country, first, second) ==
  IF country = "India"
  THEN IF IsNaN(first.price) THEN second ELSE first
  ELSE first


reco_strict(overall, b, h) ==
  IF FGt(overall, b) THEN "Buy"
  ELSE IF FGt(overall, h) THEN "Hold" ELSE "Sell/Avoid"

reco(overall, b, h) ==
  IF FGe(overall, b) THEN "Buy"
  ELSE IF FGe(overall, h) THEN "Hold" ELSE "Sell/Avoid"

(***************************************************************************)
(* Inputs                                                                  *)
(***************************************************************************)
MaxRuns ==
  2

Bundle(price, sector, beta, pe, pb, ps, pfcf, y, r1, r3) ==
  [price |-> price, sector |-> sector, industry |-> NoSector, beta |-> beta,
   pe |-> pe, pb |-> pb, ps |-> ps, pfcf |-> pfcf, div_yield |-> y,
   r_1y |-> r1, r_3y |-> r3]

\* What fetch_yahoo can return: info.get(...) is None or a number, the
\* returns are NaN or a number, the price is NaN when nothing was found.
NoData ==
  Bundle(NaN, NoSector, None, None, None, None, None, None, NaN, NaN)

FetchBundles ==
  { NoData,
    Bundle(R(50, 1), NoSector, None, None, None, None, None, None, NaN, NaN),
    Bundle(R(100, 1), NoSector, One, R(18, 1), R(3, 1), None, None,
           R(2, 100), R(1, 10), R(3, 10)),
    Bundle(R(200, 1), "Technology", R(2, 1), R(56, 1), R(9, 1), R(3, 1),
           R(-5, 1), Zero, NaN, R(1, 2)),
    Bundle(R(10, 1), "Energy", R(1, 2), R(2, 1), R(1, 1), R(1, 2),
           R(4, 1), R(1, 10), R(1, 1), R(2, 1)) }

\* Metric bundles handed to score_stock directly: every field may be None
\* (key missing), NaN, zero, negative or extreme.
ScoreBundles ==
  [price : {R(100, 1)}, sector : {NoSector, "Technology"},
   industry : {NoSector},
   beta : {None, NaN, R(4, 1)},
   pe : {None, NaN, R(-9, 1), R(2, 1), R(18, 1)},
   pb : {None, R(3, 1), R(9, 1)},
   ps : {None, Zero, R(2, 1)},
   pfcf : {NaN, R(-5, 1)},
   div_yield : {None, NaN, Zero, R(1, 50), R(1, 2)},
   r_1y : {None, NaN, R(1, 10), R(-2, 1)},
   r_3y : {None, NaN, R(3, 10)}]

Countries ==
  {"US", "India"}

\* Slider positions: 0.0 to 10.0 in steps of 0.5.
SliderVals ==
  {R(k, 2) : k \in 0..20}

\* Overall scores in hundredths, at and next to every slider position.
OverallVals ==
  {R(50 * t + e, 100) : t \in 0..20, e \in {-1, 0, 1}} \ {R(-1, 100), R(1001, 100)}

ActualVals ==
  {None, NaN, Zero, R(-9, 1), R(-1, 2), R(1, 2), R(9, 1), R(18, 1), R(1000, 1)}

USInputs ==
  { <<>>, <<" ", " ">>, <<" ","v","o","o"," ">>,
    <<"V","F","I","A","X">>, <<"A","A","P","L">> }

INInputs ==
  { <<>>,
    <<"n","s","e",":","n","i","f","t","y","b","e","e","s"," ">>,
    <<"B","S","E",":","T","C","S">>, <<"B","A","N","K","B","E","E","S">> }

MFInputs ==
  { <<>>, <<"i","n","f","1","0","9","k","0","1","z","b","3">>,
    <<"I","N","F","Y">> }

BuyThresholds ==
  {R(6, 1), R(8, 1)}

HoldThresholds ==
  {R(6, 1)}

(***************************************************************************)
(* State                                                                   *)
(***************************************************************************)
\* pc .. fault: one run of the script (its inputs, its namespace, what it
\* rendered and the exception that ended it, if any).
\* hpc, harg, hret: a direct call of one function of the engine: where the
\* call stands, its arguments and what it returned.
VARIABLES
  pc, runs,
  us_ticker, in_ticker, mf_code, query, buy_thr, hold_thr,
  country, itype, code, tickers, data,
  names, overall, scores, exps, sector, rec,
  ui, fault,
  hpc, harg, hret

vars ==
  <<pc, runs, us_ticker, in_ticker, mf_code, query, buy_thr, hold_thr,
    country, itype, code, tickers, data, names, overall, scores, exps,
    sector, rec, ui, fault, hpc, harg, hret>>

appvars ==
  <<pc, runs, us_ticker, in_ticker, mf_code, query, buy_thr, hold_thr,
    country, itype, code, tickers, data, names, overall, scores, exps,
    sector, rec, ui, fault>>

hvars ==
  <<hpc, harg, hret>>

\* A fresh script namespace: nothing detected, fetched or scored yet.
FreshRun ==
  /\ country = "" /\ itype = "" /\ code = <<>> /\ tickers = <<>>
  /\ data = NoData /\ names = {} /\ overall = None /\ scores = <<>>
  /\ exps = <<>> /\ sector = "" /\ rec = "" /\ ui = <<>> /\ fault = "none"

AppInit ==
  /\ pc = "idle" /\ runs = 0
  /\ us_ticker = <<>> /\ in_ticker = <<>> /\ mf_code = <<>> /\ query = <<>>
  /\ buy_thr = R(8, 1) /\ hold_thr = R(6, 1)
  /\ FreshRun

HarnessIdle ==
  hpc = "idle" /\ harg = <<>> /\ hret = <<>>

Init ==
  AppInit /\ HarnessIdle

\* query: the first of the three inputs that is not blank, stripped.
first_query(cands) ==
  IF \E i \in 1..Len(cands) : strip(cands[i]) # <<>>
  THEN strip(cands[CHOOSE i \in 1..Len(cands) :
                     /\ strip(cands[i]) # <<>>
                     /\ \A j \in 1..(i - 1) : strip(cands[j]) = <<>>])
  ELSE <<>>

\* One script run, from its start to the call of fetch_for (lines 168-192),
\* or to its end when no query was entered (lines 216-217).
Rerun(u, i, mfc, b, h) ==
  /\ pc \in {"idle", "done"}
  /\ runs < MaxRuns
  /\ runs' = runs + 1
  /\ us_ticker' = u /\ in_ticker' = i /\ mf_code' = mfc
  /\ buy_thr' = b /\ hold_thr' = h
  /\ LET q == first_query(<<u, i, mfc>>)
         det == detect_country_and_type(q)
     IN  /\ query' = q
         /\ data' = NoData /\ names' = {} /\ overall' = None /\ scores' = <<>>
         /\ exps' = <<>> /\ sector' = "" /\ rec' = "" /\ fault' = "none"
         /\ IF q # <<>>
            THEN /\ country' = det.country /\ itype' = det.itype /\ code' = det.code
                 /\ tickers' = fetch_tickers(det.code, det.country)
                 /\ ui' = <<"detected">>
                 /\ pc' = "fetching"
            ELSE /\ country' = "" /\ itype' = "" /\ code' = <<>> /\ tickers' = <<>>
                 /\ ui' = <<"info">>
                 /\ pc' = "done"
  /\ UNCHANGED hvars

\* The rest of the run once fetch_for has returned (lines 192-215).
FetchReturn(first, second) ==
  /\ pc = "fetching"
  /\ pc' = "done"
  /\ LET d == fetch_for(code, country, first, second)
         res == score_stock(country, d)
         table == <<"table", "key_metrics", "json">>
     IN  /\ data' = d
         /\ IF IsNaN(d.price)
            THEN /\ ui' = ui \o <<"error">>
                 /\ UNCHANGED <<names, overall, scores, exps, sector, rec, fault>>
            ELSE IF itype = "Stock"
            THEN IF res.status = "raised"
                 THEN /\ fault' = "TypeError"
                      /\ UNCHANGED <<names, overall, scores, exps, sector, rec, ui>>
                 ELSE /\ overall' = res.overall /\ scores' = res.scores
                      /\ exps' = res.exps /\ sector' = res.sector
                      /\ rec' = reco(res.overall, buy_thr, hold_thr)
                      /\ names' = {"overall", "scores", "exps", "sector", "rec"}
                      /\ ui' = ui \o <<"overall", "sector">> \o table
                      /\ fault' = "none"
            ELSE \* scores and exps were never assigned on this path
                 /\ ui' = ui \o <<"not_implemented">>
                 /\ fault' = "NameError"
                 /\ UNCHANGED <<names, overall, scores, exps, sector, rec>>
  /\ UNCHANGED <<runs, us_ticker, in_ticker, mf_code, query, buy_thr, hold_thr,
                 country, itype, code, tickers>>
  /\ UNCHANGED hvars

Next ==
  \/ \E u \in USInputs, i \in INInputs, mfc \in MFInputs,
        b \in BuyThresholds, h \in HoldThresholds : Rerun(u, i, mfc, b, h)
  \/ \E first \in FetchBundles, second \in FetchBundles : FetchReturn(first, second)

Spec ==
  Init /\ [][Next]_vars

(***************************************************************************)
(* score_stock applied to every metric bundle                              *)
(***************************************************************************)
InitScore ==
  /\ AppInit
  /\ hpc = "call"
  /\ harg \in [country : Countries, m : ScoreBundles]
  /\ hret = <<>>

CallScoreStock ==
  /\ hpc = "call"
  /\ hret' = score_stock(harg.country, harg.m)
  /\ hpc' = "done"
  /\ UNCHANGED <<harg, appvars>>

NextScore ==
  CallScoreStock

SpecScore ==
  InitScore /\ [][NextScore]_vars

(***************************************************************************)
(* renorm_weights applied to STOCK_W restricted to every set of factors    *)
(***************************************************************************)
InitRenorm ==
  /\ AppInit
  /\ hpc = "call"
  /\ harg \in [avail : SUBSET Factors]
  /\ hret = <<>>

CallRenorm ==
  /\ hpc = "call"
  /\ hret' = renorm_weights([f \in Factors |->
                               IF f \in harg.avail THEN STOCK_W[f] ELSE Zero])
  /\ hpc' = "done"
  /\ UNCHANGED <<harg, appvars>>

NextRenorm ==
  CallRenorm

SpecRenorm ==
  InitRenorm /\ [][NextRenorm]_vars

(***************************************************************************)
(* reco applied to every score and pair of thresholds                      *)
(***************************************************************************)
InitReco ==
  /\ AppInit
  /\ hpc = "call"
  /\ harg \in [overall : OverallVals, buy_thr : SliderVals, hold_thr : SliderVals]
  /\ hret = <<>>

CallReco ==
  /\ hpc = "call"
  /\ hret' = reco(harg.overall, harg.buy_thr, harg.hold_thr)
  /\ hpc' = "done"
  /\ UNCHANGED <<harg, appvars>>

NextReco ==
  CallReco

SpecReco ==
  InitReco /\ [][NextReco]_vars

(***************************************************************************)
(* The valuation-vs-sector sub-ratios at two actual values                 *)
(***************************************************************************)
InitSubRatio ==
  /\ AppInit
  /\ hpc = "call"
  /\ harg \in [country : Countries, sector : {"Technology", "Default"},
               ratio : {"PE", "PS", "PFCF"}, a1 : ActualVals, a2 : ActualVals]
  /\ hret = <<>>

MedianOf(c, s, ratio) ==
  CASE ratio = "PE" -> SECTOR_MEDIANS[c][s].PE
    [] ratio = "PS" -> SECTOR_MEDIANS[c][s].PS
    [] ratio = "PFCF" -> SECTOR_MEDIANS[c][s].PFCF

\* One entry of comp (lines 138-140): present only when the guard passes.
comp_entry(median, actual) ==
  IF Truthy(actual) /\ Truthy(median)
  THEN [computed |-> TRUE, score |-> SubRatio(median, actual)]
  ELSE [computed |-> FALSE, score |-> NaN]

CallSubRatio ==
  /\ hpc = "call"
  /\ LET med == MedianOf(harg.country, harg.sector, harg.ratio)
     IN  hret' = <<comp_entry(med, harg.a1), comp_entry(med, harg.a2)>>
  /\ hpc' = "done"
  /\ UNCHANGED <<harg, appvars>>

NextSubRatio ==
  CallSubRatio

SpecSubRatio ==
  InitSubRatio /\ [][NextSubRatio]_vars

(***************************************************************************)
(* Properties                                                              *)
(***************************************************************************)
Shown(tag) ==
  \E i \in 1..Len(ui) : ui[i] = tag

InUnit(x) ==
  IsNum(x) /\ 0 <= x.n /\ x.n <= 10 * x.d

\* C1: over every set A of available factors, the weights renorm_weights
\* returns for STOCK_W with the factors outside A zeroed sum to 1 over A when
\* A is not empty and are 0 outside A; when A is empty every weight is 0.
C1_RenormSumsToOne ==
  hpc = "done" =>
    /\ \A f \in Factors \ harg.avail : hret[f] = Zero
    /\ harg.avail # {} => SumOver(hret, harg.avail) = One
    /\ harg.avail = {} => \A f \in Factors : hret[f] = Zero

C1_Witness ==
  /\ hpc = "done"
  /\ Cardinality(harg.avail) = 3
  /\ \A f \in harg.avail : hret[f] = R(1, 3)

\* C2: every sub-score score_stock produces is NaN or lies in [0, 10].
C2_ScoresClamped ==
  hpc = "done" =>
    \A f \in DOMAIN hret.scores : IsNaN(hret.scores[f]) \/ InUnit(hret.scores[f])

\* A bundle whose raw P/E score (5 * 18 / 2 = 45) and raw growth score
\* (5 + mean(-20, ..) < 0) both leave [0, 10] and were clamped.
C2_Witness ==
  /\ hpc = "done" /\ hret.status = "returned"
  /\ harg.m.pe = R(2, 1) /\ harg.m.sector = NoSector /\ harg.country = "US"
  /\ hret.scores["pe_vs_sector"] = Ten
  /\ harg.m.r_1y = R(-2, 1)
  /\ hret.scores["growth"] = Zero

\* C3: reco returns Buy exactly when overall >= buy_thr, Hold exactly when
\* overall < buy_thr and overall >= hold_thr, Sell/Avoid otherwise; with
\* thresholds 8.0/6.0, 8.0 is Buy, 7.99 is Hold and 5.99 is Sell/Avoid.
C3_RecoClassifies ==
  hpc = "done" =>
    LET o == harg.overall
        b == harg.buy_thr
        h == harg.hold_thr
        geB == o.n * b.d >= b.n * o.d
        geH == o.n * h.d >= h.n * o.d
    IN  /\ (hret = "Buy") <=> geB
        /\ (hret = "Hold") <=> (~geB /\ geH)
        /\ (hret = "Sell/Avoid") <=> (~geB /\ ~geH)
        /\ (b = R(8, 1) /\ h = R(6, 1)) =>
             /\ o = R(8, 1) => hret = "Buy"
             /\ o = R(799, 100) => hret = "Hold"
             /\ o = R(599, 100) => hret = "Sell/Avoid"

C3_Witness ==
  /\ hpc = "done"
  /\ harg.buy_thr = R(8, 1) /\ harg.hold_thr = R(6, 1)
  /\ harg.overall = R(6, 1)
  /\ hret = "Hold"

\* C4: score_stock returns a result tuple for every metric bundle and never
\* raises, whichever fields are None or NaN.
C4_NeverRaises ==
  hpc = "done" => hret.status = "returned"

\* C5: the overall score score_stock returns is, up to its rounding to two
\* decimals, the sum over the defined sub-scores of the nominal weight divided
\* by the total nominal weight of the defined factors, times the sub-score;
\* and it lies in [0, 10].
C5_OverallIsWeightedSum ==
  (hpc = "done" /\ hret.status = "returned") =>
    LET D == {f \in Factors : ~IsNaN(hret.scores[f])}
        tot == SumOver(NominalStockW, D)
        terms == [f \in D |-> FMul(FDiv(NominalStockW[f], tot), hret.scores[f])]
        exact == SumOver(terms, D)
        diff == FAbs(FSub(hret.overall, exact))
    IN  /\ InUnit(hret.overall)
        /\ diff.n * 200 <= diff.d

C5_Witness ==
  /\ hpc = "done" /\ hret.status = "returned"
  /\ Cardinality({f \in Factors : IsNaN(hret.scores[f])}) = 3
  /\ hret.w["moat"] = R(1, 5)
  /\ hret.overall.d = 100

\* C6 as stated: for any two actual values a1 < a2 at which a sub-ratio is
\* computed, the unclamped score at a1 is strictly greater than at a2.
C6_DecreasingEverywhere ==
  (hpc = "done" /\ hret[1].computed /\ hret[2].computed /\ FLt(harg.a1, harg.a2)) =>
    FGt(hret[1].score, hret[2].score)

\* C6 amended: for any two actual values a1 < a2 of the same sign at which a
\* sub-ratio is computed, the unclamped score at a1 is strictly greater than
\* at a2.
C6_DecreasingSameSign ==
  (/\ hpc = "done" /\ hret[1].computed /\ hret[2].computed
   /\ FLt(harg.a1, harg.a2)
   /\ harg.a1.n * harg.a2.n > 0) =>
    FGt(hret[1].score, hret[2].score)

C6_Witness ==
  /\ hpc = "done" /\ hret[1].computed /\ hret[2].computed
  /\ harg.ratio = "PS" /\ harg.country = "India" /\ harg.sector = "Default"
  /\ harg.a1 = R(1, 2) /\ harg.a2 = R(9, 1)
  /\ hret[1].score = R(30, 1) /\ hret[2].score = R(5, 3)

\* The value the dividend factor gives a present yield: yield * 100 / 0.6,
\* clamped into [0, 10].
ClampedYield(y) ==
  LET raw == R(y.n * 1000, y.d * 6)
  IN  IF raw.n < 0 THEN Zero ELSE IF raw.n > 10 * raw.d THEN Ten ELSE raw

\* C7 as stated: the dividend sub-score is undefined, with derived weight 0,
\* both when div_yield is missing and when it is exactly zero; only a
\* non-zero present yield gives clamp(yield * 100 / 0.6).
C7_ZeroYieldUndefined ==
  (hpc = "done" /\ hret.status = "returned") =>
    LET y == harg.m.div_yield
    IN  IF IsNone(y) \/ IsNaN(y) \/ y = Zero
        THEN IsNaN(hret.scores["dividend"]) /\ hret.w["dividend"] = Zero
        ELSE hret.scores["dividend"] = ClampedYield(y)

\* C7 amended: when score_stock returns, the dividend sub-score is undefined,
\* with derived weight 0, exactly when div_yield is missing (None or NaN);
\* every present yield, zero included, gives clamp(yield * 100 / 0.6) with
\* a positive derived weight, so a zero yield scores 0.
C7_MissingYieldUndefined ==
  (hpc = "done" /\ hret.status = "returned") =>
    LET y == harg.m.div_yield
    IN  IF IsNone(y) \/ IsNaN(y)
        THEN IsNaN(hret.scores["dividend"]) /\ hret.w["dividend"] = Zero
        ELSE /\ hret.scores["dividend"] = ClampedYield(y)
             /\ hret.w["dividend"].n > 0

C7_Witness ==
  /\ hpc = "done" /\ hret.status = "returned"
  /\ harg.m.div_yield = Zero
  /\ hret.scores["dividend"] = Zero
  /\ hret.w["dividend"] = R(1, 8)

\* C8: the growth sub-score is always defined and equals
\* clamp(5 + (r1 * 10 + r3 * 5) / 2), a missing return (None or NaN) counting
\* as 0.
C8_GrowthDefaultsToZero ==
  (hpc = "done" /\ "growth" \in DOMAIN hret.scores) =>
    LET z(r) == IF IsNum(r) THEN r ELSE Zero
        r1 == z(harg.m.r_1y)
        r3 == z(harg.m.r_3y)
        raw == R(10 * r1.d * r3.d + 10 * r1.n * r3.d + 5 * r3.n * r1.d,
                 2 * r1.d * r3.d)
    IN  hret.scores["growth"] =
          IF raw.n < 0 THEN Zero ELSE IF raw.n > 10 * raw.d THEN Ten ELSE raw

\* C9: a code starting with INF or a 5-letter code ending in X is a Mutual
\* Fund; a code with an NSE: or BSE: prefix is in India; a code ending in BEES
\* is an India ETF, exchange-prefixed or not; every other code is a US Stock.
C9_DetectionAsStated ==
  (pc # "idle" /\ query # <<>>) =>
    LET mf == startswith(code, INF) \/ (Len(code) = 5 /\ endswith(code, <<"X">>))
        pre == startswith(code, NSE) \/ startswith(code, BSE)
        bees == endswith(code, BEES)
    IN  /\ code = upper(query)
        /\ mf => itype = "Mutual Fund"
        /\ pre => country = "India"
        /\ bees => (country = "India" /\ itype = "ETF")
        /\ (~mf /\ ~pre /\ ~bees) => (country = "US" /\ itype = "Stock")

\* C10: a run with a query and a fetched price reaches the table only with
\* scores and exps assigned; for an ETF or Mutual Fund it shows the 'not
\* implemented' message, computes no rating and ends without a fault, table
\* and key metrics shown.
C10_NonStockRunCompletes ==
  (pc = "done" /\ query # <<>> /\ ~IsNaN(data.price)) =>
    /\ Shown("table") => {"scores", "exps"} \subseteq names
    /\ itype # "Stock" =>
         /\ Shown("not_implemented")
         /\ ~Shown("overall") /\ "rec" \notin names
         /\ fault = "none"
         /\ Shown("table") /\ Shown("key_metrics")

====
